---- MODULE Spec2Model ----
(***************************************************************************)
(* PsyCanvas backend (server.js): the Express pipeline                     *)
(*   cors -> express.json -> apiLimiter (on /api/) -> route handler,       *)
(* the POST /api/chat handler with its validation, its race between the    *)
(* remote completion call and a 30 s timer, and its error categorisation.  *)
(***************************************************************************)
EXTENDS Integers, Sequences, FiniteSets, TLC

\* ------------------------------------------------------------------ bounds
\* request slots of the server specification (requests in flight together)
MaxReqs == 2
\* longest explicit prefix of a `materials` array in the validation inputs
MaxItems == 2
\* last clock tick of the limiter specification
MaxTime == 4
\* clock ticks that make one limiter window (windowMs)
WindowTicks == 2
\* requests a caller keeps sending after the limiter has begun to refuse it
MaxExcess == 2
\* longest text of a document the ingestion script reads, in tokens
MaxTokens == 4

\* -------------------------------------------------------- program constants
\* chatSchema: question .min(10) .max(5000)
QuestionMin == 10
QuestionMax == 5000
\* chatSchema: materials items .max(500), array .max(20)
ItemMax == 500
MaterialsMax == 20
\* apiLimiter: max
max == 100
\* seed: filter(c => c.length > 50)
ChunkMin == 50

\* ------------------------------------------------------------ small helpers
SeqsUpTo(S, n) == UNION {[1..k -> S] : k \in 0..n}

Range(s) == {s[i] : i \in 1..Len(s)}

Repeat(x, n) == [i \in 1..n |-> x]

\* String.prototype.includes on sequences of characters
Includes(s, sub) ==
    \E i \in 0..(Len(s) - Len(sub)) :
        \A j \in 1..Len(sub) : s[i + j] = sub[j]

\* ---------------------------------------------------------- response bodies
Json(status, body) == [status |-> status, type |-> "json", body |-> body]

\* res.send of a string, and Express's default error handler / 404 page
Plain(status, type, text) == [status |-> status, type |-> type, body |-> text]

\* ------------------------------------------------- request bodies (JSON)
\* A JSON value is described by what chatSchema inspects: its type, and for
\* a string its length (question, items) or its text (the enumerations).
Absent == [t |-> "absent"]

NonString == [t |-> "number"]

Str(len) == [t |-> "string", len |-> len]

Enum(s) == [t |-> "string", s |-> s]

Arr(items) == [t |-> "array", items |-> items]

QuestionVals ==
    {Absent, NonString} \cup
    {Str(n) : n \in {0, QuestionMin - 1, QuestionMin, QuestionMax, QuestionMax + 1}}

StyleValid == {"apa", "mla", "chicago"}

ModeValid == {"strict", "balanced", "flexible"}

RecencyValid == {"5", "10", "15", "all"}

StyleVals == {Absent, NonString, Enum("chicago"), Enum("harvard")}

ModeVals == {Absent, Enum("strict"), Enum("loose")}

RecencyVals == {Absent, Enum("10"), Enum("all"), Enum("20")}

ItemVals == {NonString, Str(0), Str(ItemMax), Str(ItemMax + 1)}

\* arrays: every explicit prefix of at most MaxItems items, alone or followed
\* by MaterialsMax - 1 well-formed items (so lengths reach MaterialsMax + 1)
MaterialsVals ==
    {Absent, NonString} \cup
    {Arr(p \o Repeat(Str(ItemMax), n)) :
        p \in SeqsUpTo(ItemVals, MaxItems), n \in {0, MaterialsMax - 1}}

BodyUniverse ==
    [question : QuestionVals, citationStyle : StyleVals, citationMode : ModeVals,
     recency : RecencyVals, materials : MaterialsVals, extra : BOOLEAN]

\* --------------------------------------------------------------- chatSchema
\* Joi.string().min(10).max(5000).required() with its custom messages
QuestionErrors(q) ==
    IF q.t = "absent" THEN <<"Question is required">>
    ELSE IF q.t # "string" THEN <<"Question must be a string">>
    ELSE IF q.len = 0 THEN <<"\"question\" is not allowed to be empty">>
    ELSE (IF q.len < QuestionMin
            THEN <<"Question must be at least 10 characters long">> ELSE <<>>)
         \o
         (IF q.len > QuestionMax
            THEN <<"Question cannot exceed 5000 characters">> ELSE <<>>)

\* Joi.string().valid(...).default(...): with abortEarly off the any.only
\* report is followed by the base type check of the string type
EnumErrors(key, v, valid, onlyMsg) ==
    IF v.t = "absent" THEN <<>>
    ELSE IF v.t = "string" /\ v.s \in valid THEN <<>>
    ELSE <<onlyMsg>> \o
         (IF v.t # "string" THEN <<"\"" \o key \o "\" must be a string">>
          ELSE IF v.s = "" THEN <<"\"" \o key \o "\" is not allowed to be empty">>
          ELSE <<>>)

\* Joi.string().max(500) on item i (0-based in the message path)
ItemErrors(it, i) ==
    IF it.t # "string"
      THEN <<"\"materials[" \o ToString(i - 1) \o "]\" must be a string">>
    ELSE IF it.len = 0
      THEN <<"\"materials[" \o ToString(i - 1) \o "]\" is not allowed to be empty">>
    ELSE IF it.len > ItemMax
      THEN <<"Each material entry cannot exceed 500 characters">>
    ELSE <<>>

RECURSIVE ItemsErrors(_, _)
ItemsErrors(items, i) ==
    IF i > Len(items) THEN <<>>
    ELSE ItemErrors(items[i], i) \o ItemsErrors(items, i + 1)

\* Joi.array().items(...).max(20).default([]): the items rule has priority,
\* the max rule runs after it on the same array
MaterialsErrors(m) ==
    IF m.t = "absent" THEN <<>>
    ELSE IF m.t # "array" THEN <<"\"materials\" must be an array">>
    ELSE ItemsErrors(m.items, 1) \o
         (IF Len(m.items) > MaterialsMax
            THEN <<"Materials cannot exceed 20 items">> ELSE <<>>)

\* keys the schema does not declare
UnknownErrors(b) ==
    IF b.extra THEN <<"\"extra\" is not allowed">> ELSE <<>>

Default(v, d) == IF v.t = "absent" THEN d ELSE v

\* faulty variant: citationStyle declared without .default('apa'), an absent
\* style left undefined in the value
NormalizedNoStyleDefault(b) ==
    [question |-> b.question,
     citationStyle |-> b.citationStyle,
     citationMode |-> Default(b.citationMode, Enum("balanced")),
     recency |-> Default(b.recency, Enum("10")),
     materials |-> Default(b.materials, Arr(<<>>))]

\* the value Joi returns: defaults substituted for absent optional fields
Normalized(b) ==
    [question |-> b.question,
     citationStyle |-> Default(b.citationStyle, Enum("apa")),
     citationMode |-> Default(b.citationMode, Enum("balanced")),
     recency |-> Default(b.recency, Enum("10")),
     materials |-> Default(b.materials, Arr(<<>>))]

\* error.details.map(detail => detail.message), in schema key order
Details(b) ==
    QuestionErrors(b.question)
    \o EnumErrors("citationStyle", b.citationStyle, StyleValid,
                  "Citation style must be one of: apa, mla, chicago")
    \o EnumErrors("citationMode", b.citationMode, ModeValid,
                  "Citation mode must be one of: strict, balanced, flexible")
    \o EnumErrors("recency", b.recency, RecencyValid,
                  "Recency must be one of: 5, 10, 15, all")
    \o MaterialsErrors(b.materials)
    \o UnknownErrors(b)

\* faulty variant: the same schema with abortEarly left on: the first report only
ValidateAbortEarly(b) ==
    [details |-> IF Details(b) = <<>> THEN <<>> ELSE <<Head(Details(b))>>,
     value |-> Normalized(b)]

\* chatSchema.validate(req.body, { abortEarly: false }); error is set exactly
\* when details is not empty
Validate(b) == [details |-> Details(b), value |-> Normalized(b)]

\* res.status(400).json({ error: 'Validation failed', details })
ValidationFailed(details) ==
    Json(400, [error |-> "Validation failed", details |-> details])

\* if (error) return res.status(400).json(...): the responses the validation
\* branch sends for a body, none when the body is valid
ValidationBranch(b) ==
    LET v == Validate(b)
    IN  IF v.details # <<>> THEN <<ValidationFailed(v.details)>> ELSE <<>>

\* ------------------------------------------------------------ systemPrompt
\* ${...} of a template literal: a string as it is, undefined as "undefined"
Interpolate(v) == IF v.t = "absent" THEN "undefined" ELSE v.s

\* ${recency === 'all' ? ... : 'focus on roughly the last ' + recency + ...}
RecencyLine(recency) ==
    IF recency.t = "string" /\ recency.s = "all"
      THEN "no hard limit, but flag older work"
      ELSE "focus on roughly the last " \o Interpolate(recency)
           \o " years of research"

\* ${materials.length ? '- User has indicated ...' + materials.join(...) : ...}:
\* the lead line and the entries joined under it
MaterialsSection(materials) ==
    IF Len(materials.items) # 0
      THEN [lead |-> "- User has indicated the following course materials:",
            entries |-> materials.items]
      ELSE [lead |-> "- No specific course materials listed in this request.",
            entries |-> <<>>]

\* the template of systemPrompt: its fixed text is the same for every request,
\* so the prompt is given by what fills its holes, in order of appearance
SystemPrompt(value) ==
    [requestedStyle |->
        "Always include in-text citations and a reference list in the requested style: "
        \o Interpolate(value.citationStyle) \o ".",
     currentSetting |->
        "- Current setting: " \o Interpolate(value.citationStyle) \o ".",
     strictness |->
        "- Citation strictness: " \o Interpolate(value.citationMode) \o ".",
     recency |->
        "- Recency preference: " \o RecencyLine(value.recency) \o ".",
     materials |-> MaterialsSection(value.materials)]

\* the arguments of generateText({ model, system: systemPrompt, prompt: question })
\* for a body, none when the validation branch returned first
GenerateArgs(b) ==
    LET v == Validate(b)
    IN  IF v.details # <<>> THEN <<>>
        ELSE <<[model |-> "gpt-4.1-mini", system |-> SystemPrompt(v.value),
                prompt |-> v.value.question]>>

\* ------------------------------------------------------ remote failures
\* The string literals of the catch block, as sequences of characters.
TextRequestTimeout ==
    <<"R", "e", "q", "u", "e", "s", "t", " ", "t", "i", "m", "e", "o", "u",
      "t">>

TextNetwork ==
    <<"n", "e", "t", "w", "o", "r", "k">>

TextApiKey ==
    <<"A", "P", "I", " ", "k", "e", "y">>

TextAuthentication ==
    <<"a", "u", "t", "h", "e", "n", "t", "i", "c", "a", "t", "i", "o", "n">>

TextRateLimit ==
    <<"r", "a", "t", "e", " ", "l", "i", "m", "i", "t">>

TextModel ==
    <<"m", "o", "d", "e", "l">>

TextInvalid ==
    <<"i", "n", "v", "a", "l", "i", "d">>

\* Messages a failure may carry.
\* "network down"
MsgNetworkDown ==
    <<"n", "e", "t", "w", "o", "r", "k", " ", "d", "o", "w", "n">>

\* "bad API key"
MsgBadKey ==
    <<"b", "a", "d", " ", "A", "P", "I", " ", "k", "e", "y">>

\* "authentication failed"
MsgAuthFailed ==
    <<"a", "u", "t", "h", "e", "n", "t", "i", "c", "a", "t", "i", "o", "n",
      " ", "f", "a", "i", "l", "e", "d">>

\* "rate limit hit"
MsgRateLimitHit ==
    <<"r", "a", "t", "e", " ", "l", "i", "m", "i", "t", " ", "h", "i", "t">>

\* "Rate limit reached for this API key"
MsgRateLimitKey ==
    <<"R", "a", "t", "e", " ", "l", "i", "m", "i", "t", " ", "r", "e", "a",
      "c", "h", "e", "d", " ", "f", "o", "r", " ", "t", "h", "i", "s", " ",
      "A", "P", "I", " ", "k", "e", "y">>

\* "model missing"
MsgModelMissing ==
    <<"m", "o", "d", "e", "l", " ", "m", "i", "s", "s", "i", "n", "g">>

\* "invalid input"
MsgInvalidInput ==
    <<"i", "n", "v", "a", "l", "i", "d", " ", "i", "n", "p", "u", "t">>

\* "boom"
MsgBoom ==
    <<"b", "o", "o", "m">>

ErrMessages ==
    {TextRequestTimeout, MsgNetworkDown, MsgBadKey, MsgAuthFailed, MsgRateLimitHit,
     MsgRateLimitKey, MsgModelMissing, MsgInvalidInput, MsgBoom}

\* err.code ("" when the failure has none)
ErrCodes == {"", "ENOTFOUND", "ECONNREFUSED", "ETIMEDOUT"}

\* err.status (0 when the failure has none)
ErrStatuses == {0, 401, 429, 500}

\* a thrown value: its message (hasMessage is FALSE when err.message is
\* undefined), its code and its status
ErrUniverse ==
    [hasMessage : {TRUE}, message : ErrMessages, code : ErrCodes, status : ErrStatuses]
    \cup
    [hasMessage : {FALSE}, message : {<<>>}, code : ErrCodes, status : ErrStatuses]

\* new Error('Request timeout'), the rejection of timeoutPromise
TimeoutError ==
    [hasMessage |-> TRUE, message |-> TextRequestTimeout, code |-> "", status |-> 0]

\* err.message?.includes(text)
MessageIncludes(err, text) == err.hasMessage /\ Includes(err.message, text)

RequestTimeout ==
    Json(408, [error |-> "Request timeout",
               message |-> "The request took too long to process. Please try again."])

ServiceUnavailable ==
    Json(503, [error |-> "Service unavailable",
               message |-> "Unable to connect to AI service. Please try again later."])

ApiKeyError ==
    Json(500, [error |-> "Configuration error",
               message |-> "The service is currently unavailable. Please contact support."])

RateLimitExceeded ==
    Json(429, [error |-> "Rate limit exceeded",
               message |-> "Too many requests. Please try again later."])

InvalidModel ==
    Json(500, [error |-> "Configuration error",
               message |-> "Invalid AI model configuration. Please contact support."])

InternalServerError ==
    Json(500, [error |-> "Internal server error",
               message |-> "Something went wrong while generating an answer. Please try again."])

\* faulty variant: the catch block without its 'Request timeout' branch
CategorizeNoTimeout(err) ==
    IF \/ err.code = "ENOTFOUND"
       \/ err.code = "ECONNREFUSED"
       \/ MessageIncludes(err, TextNetwork) THEN ServiceUnavailable
    ELSE IF \/ err.status = 401
            \/ MessageIncludes(err, TextApiKey)
            \/ MessageIncludes(err, TextAuthentication) THEN ApiKeyError
    ELSE IF \/ err.status = 429
            \/ MessageIncludes(err, TextRateLimit) THEN RateLimitExceeded
    ELSE IF \/ MessageIncludes(err, TextModel)
            \/ MessageIncludes(err, TextInvalid) THEN InvalidModel
    ELSE InternalServerError

\* faulty variant: the catch block with a generic branch that passes a detail of
\* the caught value on to the caller
CategorizeLeaky(err) ==
    IF err.hasMessage /\ err.message = TextRequestTimeout THEN RequestTimeout
    ELSE IF \/ err.code = "ENOTFOUND"
            \/ err.code = "ECONNREFUSED"
            \/ MessageIncludes(err, TextNetwork) THEN ServiceUnavailable
    ELSE IF \/ err.status = 401
            \/ MessageIncludes(err, TextApiKey)
            \/ MessageIncludes(err, TextAuthentication) THEN ApiKeyError
    ELSE IF \/ err.status = 429
            \/ MessageIncludes(err, TextRateLimit) THEN RateLimitExceeded
    ELSE IF \/ MessageIncludes(err, TextModel)
            \/ MessageIncludes(err, TextInvalid) THEN InvalidModel
    ELSE Json(500, [error |-> "Internal server error", message |-> err.code])

\* the catch block: the first matching branch answers
Categorize(err) ==
    IF err.hasMessage /\ err.message = TextRequestTimeout THEN RequestTimeout
    ELSE IF \/ err.code = "ENOTFOUND"
            \/ err.code = "ECONNREFUSED"
            \/ MessageIncludes(err, TextNetwork) THEN ServiceUnavailable
    ELSE IF \/ err.status = 401
            \/ MessageIncludes(err, TextApiKey)
            \/ MessageIncludes(err, TextAuthentication) THEN ApiKeyError
    ELSE IF \/ err.status = 429
            \/ MessageIncludes(err, TextRateLimit) THEN RateLimitExceeded
    ELSE IF \/ MessageIncludes(err, TextModel)
            \/ MessageIncludes(err, TextInvalid) THEN InvalidModel
    ELSE InternalServerError

\* faulty variant: a success body with a second key
AnswerWithModel(text) == Json(200, [answer |-> text, model |-> "gpt-4.1-mini"])

\* res.json({ answer: text })
Answer(text) == Json(200, [answer |-> text])

\* ------------------------------------------------------------- apiLimiter
\* One clock tick is windowMs / WindowTicks.  A caller without a stored
\* entry is a caller whose entry has expired (resetTime 0).
NoEntry == [totalHits |-> 0, resetTime |-> 0]

\* the store's increment for one key: an expired window is reopened at the
\* current time, then the hit is counted
Increment(entry, t) ==
    LET open == IF entry.resetTime <= t
                  THEN [totalHits |-> 0, resetTime |-> t + WindowTicks]
                  ELSE entry
    IN  [open EXCEPT !.totalHits = @ + 1]

\* faulty variant: a limit that lets one request too many through
OverLimitLate(entry) == entry.totalHits > max + 1

\* the limiter calls its handler when the count exceeds max
OverLimit(entry) == entry.totalHits > max

\* handler: res.status(429).json({ error, retryAfter })
TooManyRequests ==
    Json(429, [error |-> "Too many requests from this IP, please try again later.",
               retryAfter |-> "15 minutes"])

\* what the limiter sends for a counted request: its handler's response
\* over the limit, nothing (next()) otherwise
LimiterAnswer(entry) == IF OverLimit(entry) THEN <<TooManyRequests>> ELSE <<>>

\* ------------------------------------------------------------------ server
Reqs == 1..MaxReqs

Callers == {"ip1", "ip2"}

\* process.env.ALLOWED_ORIGINS unset
allowedOrigins == {"http://localhost:3000"}

\* the Origin header ("" when the request has none)
Origins == {"", "http://localhost:3000", "http://evil.example"}

Routes == {"POST /api/chat", "GET /health", "GET /"}

\* the paths app.use('/api/', ...) covers
IsApi(route) == route = "POST /api/chat"

\* texts generateText may return
Texts == {"MDD involves..."}

\* failures the server specification lets generateText reject with: one
\* that carries the timer's message, one the catch block classifies, one it
\* does not, and one without a message (every combination of message, code
\* and status is categorised in the catch-block specification)
ErrSample ==
    {e \in ErrUniverse :
        /\ e.code = ""
        /\ e.status = 0
        /\ e.hasMessage => e.message \in {TextRequestTimeout, MsgNetworkDown, MsgBoom}}

\* the body {} express.json leaves when the request carries none
NoBody ==
    [question |-> Absent, citationStyle |-> Absent, citationMode |-> Absent,
     recency |-> Absent, materials |-> Absent, extra |-> FALSE]

\* request bodies the server specification posts to /api/chat: one that
\* breaks two rules and a valid one
ChatBodies ==
    {[NoBody EXCEPT !.question = Str(QuestionMin - 1),
                    !.materials = Arr(<<Str(ItemMax + 1)>>)],
     [NoBody EXCEPT !.question = Str(QuestionMin)]}

\* what express.json may make of a request: <<>> when the body does not
\* parse, the parsed body otherwise
Parsed(route) ==
    {<<>>} \cup {<<b>> : b \in IF route = "POST /api/chat" THEN ChatBodies ELSE {NoBody}}

VARIABLES
    pc,      \* per request: "idle", "json", "limit", "route", "wait", "done"
    req,     \* per request: its route, its caller address and its parsed body
    store,   \* apiLimiter's store: per caller, totalHits and resetTime
    now,     \* the clock, in ticks
    calls,   \* per request: generateText calls issued
    timer,   \* per request: the 30 s timer, "unset", "armed" or "fired"
    remote,  \* per request: generatePromise, <<"none">>, <<"pending">>,
             \* <<"resolved", text>> or <<"rejected">>
    sent,    \* per request: the responses sent, in order
    log,     \* per request: the steps taken, in order
    vin,     \* validation specification: the body validated (<<>> when none)
    vout,    \* validation specification: what the validation branch produced
    cin,     \* catch-block specification: the value caught (<<>> when none)
    cout,    \* catch-block specification: the response the catch block sent
    probeStart,  \* limiter specification: first tick of the observed interval
    probeCount,  \* limiter specification: requests admitted in that interval
    windowAdmitted, \* limiter specification: requests admitted in the open window
    lout,    \* limiter specification: the outcome of the last request
    docs,    \* ingestion script: the documents directory, whether it exists,
             \* its listing and the text of each file
    seedPc,  \* ingestion script: "start", "file", "embed", "upsert", "done"
             \* or "aborted"
    fileIdx, \* ingestion script: position of the loop over files
    chunks,  \* ingestion script: the chunks of the file being processed
    chunkIdx, \* ingestion script: i of the loop over chunks
    embedding, \* ingestion script: the embedding awaited last (<<>> when none)
    outbound \* ingestion script: the calls made to the remote services

serverVars == <<pc, req, store, now, calls, timer, remote, sent, log>>

pureVars == <<vin, vout, cin, cout>>

limiterVars == <<probeStart, probeCount, windowAdmitted, lout>>

seedVars == <<docs, seedPc, fileIdx, chunks, chunkIdx, embedding, outbound>>

vars == <<serverVars, pureVars, limiterVars, seedVars>>

NoReq == [route |-> "", caller |-> "", body |-> <<>>]

\* the store as earlier traffic of the current window may have left it:
\* empty, or with one caller a single request short of the limit
StoreInit ==
    {[c \in Callers |-> NoEntry],
     [c \in Callers |->
        IF c = "ip1" THEN [totalHits |-> max - 1, resetTime |-> WindowTicks]
        ELSE NoEntry]}

ServerIdle ==
    /\ pc = [r \in Reqs |-> "idle"]
    /\ req = [r \in Reqs |-> NoReq]
    /\ now = 0
    /\ calls = [r \in Reqs |-> 0]
    /\ timer = [r \in Reqs |-> "unset"]
    /\ remote = [r \in Reqs |-> <<"none">>]
    /\ sent = [r \in Reqs |-> <<>>]
    /\ log = [r \in Reqs |-> <<>>]

PureIdle ==
    /\ vin = <<>>
    /\ vout = <<>>
    /\ cin = <<>>
    /\ cout = <<>>

LimiterIdle ==
    /\ probeStart = 0
    /\ probeCount = 0
    /\ windowAdmitted = 0
    /\ lout = <<>>

\* the ingestion script is a process of its own; here it is not run
SeedIdle ==
    /\ docs = [exists |-> FALSE, files |-> <<>>, text |-> <<>>]
    /\ seedPc = "done"
    /\ fileIdx = 0
    /\ chunks = <<>>
    /\ chunkIdx = 0
    /\ embedding = <<>>
    /\ outbound = <<>>

Init ==
    /\ ServerIdle
    /\ store \in StoreInit
    /\ PureIdle
    /\ LimiterIdle
    /\ SeedIdle

\* the response ends the request
Respond(r, response, step) ==
    /\ sent' = [sent EXCEPT ![r] = Append(@, response)]
    /\ log' = [log EXCEPT ![r] = Append(@, step)]
    /\ pc' = [pc EXCEPT ![r] = "done"]

\* the request moves on to the next middleware
Pass(r, next, step) ==
    /\ log' = [log EXCEPT ![r] = Append(@, step)]
    /\ pc' = [pc EXCEPT ![r] = next]
    /\ UNCHANGED sent

\* a request arrives; app.use(cors({ origin })): a request without Origin or
\* with an allowed one passes, any other is handed to next(err), which
\* Express's default error handler answers with an HTML page
Cors(r, route, origin, caller) ==
    /\ pc[r] = "idle"
    /\ req' = [req EXCEPT ![r] = [route |-> route, caller |-> caller, body |-> <<>>]]
    /\ IF origin = "" \/ origin \in allowedOrigins
         THEN Pass(r, "json", "cors ok")
         ELSE Respond(r, Plain(500, "html", "Error: Not allowed by CORS"), "cors error")
    /\ UNCHANGED <<store, now, calls, timer, remote, pureVars, limiterVars, seedVars>>

\* app.use(express.json()): a body that does not parse is handed to
\* next(err) with status 400, answered by the default error handler
ExpressJson(r, parsed) ==
    /\ pc[r] = "json"
    /\ parsed \in Parsed(req[r].route)
    /\ req' = [req EXCEPT ![r].body = parsed]
    /\ IF parsed # <<>>
         THEN Pass(r, IF IsApi(req[r].route) THEN "limit" ELSE "route", "json ok")
         ELSE Respond(r, Plain(400, "html", "SyntaxError"), "json error")
    /\ UNCHANGED <<store, now, calls, timer, remote, pureVars, limiterVars, seedVars>>

\* faulty variant: a limiter handler that answers 429 and calls next() too
ApiLimiterNoReturn(r) ==
    /\ pc[r] = "limit"
    /\ LET entry == Increment(store[req[r].caller], now)
       IN  /\ store' = [store EXCEPT ![req[r].caller] = entry]
           /\ sent' = [sent EXCEPT ![r] = @ \o LimiterAnswer(entry)]
           /\ log' = [log EXCEPT ![r] =
                        Append(@, IF LimiterAnswer(entry) # <<>>
                                    THEN "limit 429" ELSE "limit ok")]
           /\ pc' = [pc EXCEPT ![r] = "route"]
    /\ UNCHANGED <<req, now, calls, timer, remote, pureVars, limiterVars, seedVars>>

\* app.use('/api/', apiLimiter)
ApiLimiter(r) ==
    /\ pc[r] = "limit"
    /\ LET entry == Increment(store[req[r].caller], now)
       IN  /\ store' = [store EXCEPT ![req[r].caller] = entry]
           /\ IF LimiterAnswer(entry) # <<>>
                THEN Respond(r, LimiterAnswer(entry)[1], "limit 429")
                ELSE Pass(r, "route", "limit ok")
    /\ UNCHANGED <<req, now, calls, timer, remote, pureVars, limiterVars, seedVars>>

\* app.get('/health')
Health(r) ==
    /\ pc[r] = "route"
    /\ req[r].route = "GET /health"
    /\ Respond(r, Json(200, [status |-> "ok", timestamp |-> "ISO-8601"]), "health")
    /\ UNCHANGED <<req, store, now, calls, timer, remote, pureVars, limiterVars, seedVars>>

\* app.get('/')
Root(r) ==
    /\ pc[r] = "route"
    /\ req[r].route = "GET /"
    /\ Respond(r, Plain(200, "text", "PsyCanvas backend is running."), "root")
    /\ UNCHANGED <<req, store, now, calls, timer, remote, pureVars, limiterVars, seedVars>>

\* faulty variant: the validation branch without its return
ChatHandlerNoReturn(r) ==
    /\ pc[r] = "route"
    /\ req[r].route = "POST /api/chat"
    /\ LET answer == ValidationBranch(req[r].body[1])
       IN  /\ sent' = [sent EXCEPT ![r] = @ \o answer]
           /\ log' = [log EXCEPT ![r] =
                        @ \o (IF answer # <<>> THEN <<"validate error">> ELSE <<"validate ok">>)
                          \o <<"setTimeout", "generateText">>]
           /\ timer' = [timer EXCEPT ![r] = "armed"]
           /\ calls' = [calls EXCEPT ![r] = @ + 1]
           /\ remote' = [remote EXCEPT ![r] = <<"pending">>]
           /\ pc' = [pc EXCEPT ![r] = "wait"]
    /\ UNCHANGED <<req, store, now, pureVars, limiterVars, seedVars>>

\* app.post('/api/chat') up to its await: validation, then the timer is
\* set, generateText is called and the handler waits for the race
ChatHandler(r) ==
    /\ pc[r] = "route"
    /\ req[r].route = "POST /api/chat"
    /\ LET answer == ValidationBranch(req[r].body[1])
       IN  IF answer # <<>>
             THEN /\ Respond(r, answer[1], "validate error")
                  /\ UNCHANGED <<calls, timer, remote>>
             ELSE /\ log' = [log EXCEPT ![r] = @ \o <<"validate ok", "setTimeout", "generateText">>]
                  /\ timer' = [timer EXCEPT ![r] = "armed"]
                  /\ calls' = [calls EXCEPT ![r] = @ + 1]
                  /\ remote' = [remote EXCEPT ![r] = <<"pending">>]
                  /\ pc' = [pc EXCEPT ![r] = "wait"]
                  /\ UNCHANGED sent
    /\ UNCHANGED <<req, store, now, pureVars, limiterVars, seedVars>>

\* faulty variant: each promise answers when it settles, race or no race
SettleAlways(r, response, step) ==
    /\ sent' = [sent EXCEPT ![r] = Append(@, response)]
    /\ log' = [log EXCEPT ![r] = Append(@, step)]
    /\ pc' = [pc EXCEPT ![r] = "done"]

\* one side of Promise.race settles: it decides the response when the race
\* is still open (the handler still waits), and is ignored otherwise
Settle(r, response, step) ==
    IF pc[r] = "wait"
      THEN Respond(r, response, step)
      ELSE /\ log' = [log EXCEPT ![r] = Append(@, step)]
           /\ UNCHANGED <<pc, sent>>

\* generatePromise fulfils with { text }
RemoteResolve(r, text) ==
    /\ remote[r] = <<"pending">>
    /\ remote' = [remote EXCEPT ![r] = <<"resolved", text>>]
    /\ Settle(r, Answer(text), "remote ok")
    /\ UNCHANGED <<req, store, now, calls, timer, pureVars, limiterVars, seedVars>>

\* faulty variant: a catch block that calls generateText once more
RemoteRejectRetry(r, err) ==
    /\ remote[r] = <<"pending">>
    /\ IF calls[r] < 2 /\ pc[r] = "wait"
         THEN /\ calls' = [calls EXCEPT ![r] = @ + 1]
              /\ log' = [log EXCEPT ![r] = @ \o <<"remote error", "generateText">>]
              /\ UNCHANGED <<remote, pc, sent>>
         ELSE /\ remote' = [remote EXCEPT ![r] = <<"rejected">>]
              /\ Settle(r, Categorize(err), "remote error")
              /\ UNCHANGED calls
    /\ UNCHANGED <<req, store, now, timer, pureVars, limiterVars, seedVars>>

\* generatePromise rejects with err: the catch block categorises it
RemoteReject(r, err) ==
    /\ remote[r] = <<"pending">>
    /\ remote' = [remote EXCEPT ![r] = <<"rejected">>]
    /\ Settle(r, Categorize(err), "remote error")
    /\ UNCHANGED <<req, store, now, calls, timer, pureVars, limiterVars, seedVars>>

\* setTimeout(() => reject(new Error('Request timeout')), 30000) fires
TimerFire(r) ==
    /\ timer[r] = "armed"
    /\ timer' = [timer EXCEPT ![r] = "fired"]
    /\ Settle(r, Categorize(TimeoutError), "timeout")
    /\ UNCHANGED <<req, store, now, calls, remote, pureVars, limiterVars, seedVars>>

Next ==
    \/ \E r \in Reqs, route \in Routes, origin \in Origins, caller \in Callers :
           Cors(r, route, origin, caller)
    \/ \E r \in Reqs, parsed \in UNION {Parsed(route) : route \in Routes} :
           ExpressJson(r, parsed)
    \/ \E r \in Reqs : ApiLimiter(r)
    \/ \E r \in Reqs : Health(r)
    \/ \E r \in Reqs : Root(r)
    \/ \E r \in Reqs : ChatHandler(r)
    \/ \E r \in Reqs, text \in Texts : RemoteResolve(r, text)
    \/ \E r \in Reqs, err \in ErrSample : RemoteReject(r, err)
    \/ \E r \in Reqs : TimerFire(r)

Spec == Init /\ [][Next]_vars

\* ------------------------------------------- validation, as a pure function
\* the validation branch of the chat handler applied to one body
InitValidate ==
    /\ ServerIdle
    /\ store = [c \in Callers |-> NoEntry]
    /\ LimiterIdle
    /\ SeedIdle
    /\ vin \in {<<b>> : b \in BodyUniverse}
    /\ vout = <<>>
    /\ cin = <<>>
    /\ cout = <<>>

ValidateBody ==
    /\ vin # <<>>
    /\ vout = <<>>
    /\ vout' = <<[details |-> Validate(vin[1]).details,
                  value |-> Validate(vin[1]).value,
                  sent |-> ValidationBranch(vin[1]),
                  call |-> GenerateArgs(vin[1])]>>
    /\ UNCHANGED <<serverVars, limiterVars, seedVars, vin, cin, cout>>

NextValidate == ValidateBody

SpecValidate == InitValidate /\ [][NextValidate]_vars

\* ------------------------------------------ the catch block, as a function
InitCatch ==
    /\ ServerIdle
    /\ store = [c \in Callers |-> NoEntry]
    /\ LimiterIdle
    /\ SeedIdle
    /\ vin = <<>>
    /\ vout = <<>>
    /\ cin \in {<<e>> : e \in ErrUniverse}
    /\ cout = <<>>

CatchBlock ==
    /\ cin # <<>>
    /\ cout = <<>>
    /\ cout' = <<Categorize(cin[1])>>
    /\ UNCHANGED <<serverVars, limiterVars, seedVars, vin, vout, cin>>

NextCatch == CatchBlock

SpecCatch == InitCatch /\ [][NextCatch]_vars

\* ---------------------------------------------- the limiter and its clock
\* One caller's requests to /api/ paths reach apiLimiter while time passes.
\* windowAdmitted counts the requests let through since the caller's window
\* was opened; probeCount counts those let through at the WindowTicks ticks
\* that start at probeStart (an interval of windowMs placed anywhere).
LimiterCaller == "ip1"

InitLimiter ==
    /\ ServerIdle
    /\ store = [c \in Callers |-> NoEntry]
    /\ PureIdle
    /\ SeedIdle
    /\ probeStart \in 0..MaxTime
    /\ probeCount = 0
    /\ windowAdmitted = 0
    /\ lout = <<>>

LimitedRequest(c) ==
    /\ store[c].totalHits < max + MaxExcess
    /\ LET reopened == store[c].resetTime <= now
           entry == Increment(store[c], now)
           answer == LimiterAnswer(entry)
           passed == IF answer = <<>> THEN 1 ELSE 0
       IN  /\ store' = [store EXCEPT ![c] = entry]
           /\ windowAdmitted' = (IF reopened THEN 0 ELSE windowAdmitted) + passed
           /\ probeCount' =
                 IF now >= probeStart /\ now < probeStart + WindowTicks
                   THEN probeCount + passed ELSE probeCount
           /\ lout' = <<[totalHits |-> entry.totalHits, sent |-> answer]>>
    /\ UNCHANGED <<pc, req, now, calls, timer, remote, sent, log, pureVars, seedVars, probeStart>>

Tick ==
    /\ now < MaxTime
    /\ now' = now + 1
    /\ UNCHANGED <<pc, req, store, calls, timer, remote, sent, log, pureVars, limiterVars, seedVars>>

NextLimiter ==
    \/ LimitedRequest(LimiterCaller)
    \/ Tick

SpecLimiter == InitLimiter /\ [][NextLimiter]_vars

\* ------------------------------------------------ the ingestion script
\* A text is a sequence of tokens: a newline character, or a run of len
\* characters that are not newlines.
Newline == [t |-> "nl", len |-> 1]

Run(len) == [t |-> "run", len |-> len]

Tokens == {Newline, Run(1), Run(ChunkMin - 1), Run(ChunkMin), Run(ChunkMin + 1)}

\* c.length
RECURSIVE Length(_)
Length(text) ==
    IF text = <<>> THEN 0 ELSE Head(text).len + Length(Tail(text))

\* text.split('\n\n'): the separators are found left to right, without
\* overlap; cur is the piece being collected from position i on
RECURSIVE SplitFrom(_, _, _)
SplitFrom(text, i, cur) ==
    IF i > Len(text) THEN <<cur>>
    ELSE IF i < Len(text) /\ text[i] = Newline /\ text[i + 1] = Newline
      THEN <<cur>> \o SplitFrom(text, i + 2, <<>>)
    ELSE SplitFrom(text, i + 1, Append(cur, text[i]))

Split(text) == SplitFrom(text, 1, <<>>)

Longer(c) == Length(c) > ChunkMin

NotShorter(c) == Length(c) >= ChunkMin

\* faulty variant: filter(c => c.length >= 50)
ChunksFromMin(text) == SelectSeq(Split(text), NotShorter)

\* text.split('\n\n').filter(c => c.length > 50)
Chunks(text) == SelectSeq(Split(text), Longer)

\* file names, as sequences of characters
SuffixTxt == <<".", "t", "x", "t">>

FileA == <<"a">> \o SuffixTxt

FileB == <<"b", ".", "m", "d">>

FileC == <<"c">> \o SuffixTxt

\* file.endsWith('.txt')
EndsWith(s, suffix) ==
    /\ Len(s) >= Len(suffix)
    /\ SubSeq(s, Len(s) - Len(suffix) + 1, Len(s)) = suffix

\* the decimal digits of i, as the template literal prints a number
RECURSIVE Decimal(_)
Decimal(i) ==
    LET digit == <<"0", "1", "2", "3", "4", "5", "6", "7", "8", "9">>
    IN  IF i < 10 THEN <<digit[i + 1]>>
        ELSE Decimal(i \div 10) \o <<digit[(i % 10) + 1]>>

\* `${file}-${i}`
ChunkId(file, i) == file \o <<"-">> \o Decimal(i)

\* response.data[0].embedding: the vector the service computes for a text
Embedding(text) == [embeddingOf |-> text]

\* openai.embeddings.create({ model, input: text })
EmbeddingsCreate(text) ==
    [op |-> "embeddings.create", model |-> "text-embedding-3-small", input |-> text]

\* index.upsert([{ id, values, metadata: { text, source } }]) on index psycanvas
Upsert(file, i, chunk, values) ==
    [op |-> "upsert", index |-> "psycanvas", id |-> ChunkId(file, i),
     values |-> values, metadata |-> [text |-> chunk, source |-> file]]

\* the documents directories the script is run on: none, or one that lists
\* two text files and a file of another kind
DocsUniverse ==
    {[exists |-> FALSE, files |-> <<>>, text |-> <<>>]} \cup
    {[exists |-> TRUE, files |-> <<FileA, FileB, FileC>>,
      text |-> [f \in {FileA, FileB, FileC} |->
                  IF f = FileA THEN ta
                  ELSE IF f = FileB THEN <<Run(ChunkMin + 1)>> ELSE tc]] :
        ta \in SeqsUpTo(Tokens, MaxTokens),
        tc \in {<<Run(ChunkMin)>>, <<Run(ChunkMin + 1)>>}}

InitSeed ==
    /\ ServerIdle
    /\ store = [c \in Callers |-> NoEntry]
    /\ PureIdle
    /\ LimiterIdle
    /\ docs \in DocsUniverse
    /\ seedPc = "start"
    /\ fileIdx = 0
    /\ chunks = <<>>
    /\ chunkIdx = 0
    /\ embedding = <<>>
    /\ outbound = <<>>

\* seed() up to the loop over files: return when there is no documents folder
SeedStart ==
    /\ seedPc = "start"
    /\ IF docs.exists
         THEN seedPc' = "file" /\ fileIdx' = 1
         ELSE seedPc' = "done" /\ UNCHANGED fileIdx
    /\ UNCHANGED <<serverVars, pureVars, limiterVars, docs, chunks, chunkIdx,
                   embedding, outbound>>

\* one turn of for (const file of files) up to its first await: skip a file
\* that is not .txt, read and chunk any other
NextFile ==
    /\ seedPc = "file"
    /\ IF fileIdx > Len(docs.files)
         THEN seedPc' = "done" /\ UNCHANGED <<fileIdx, chunks, chunkIdx>>
         ELSE LET file == docs.files[fileIdx]
                  cs == Chunks(docs.text[file])
              IN  IF ~EndsWith(file, SuffixTxt) \/ Len(cs) = 0
                    THEN /\ fileIdx' = fileIdx + 1
                         /\ UNCHANGED <<seedPc, chunks, chunkIdx>>
                    ELSE /\ chunks' = cs
                         /\ chunkIdx' = 0
                         /\ seedPc' = "embed"
                         /\ UNCHANGED fileIdx
    /\ UNCHANGED <<serverVars, pureVars, limiterVars, docs, embedding, outbound>>

\* const embedding = await generateEmbedding(chunk): the call is made; when
\* it fails seed() rejects and the script ends
GenerateEmbedding(ok) ==
    /\ seedPc = "embed"
    /\ LET chunk == chunks[chunkIdx + 1]
       IN  /\ outbound' = Append(outbound, EmbeddingsCreate(chunk))
           /\ IF ok
                THEN embedding' = <<Embedding(chunk)>> /\ seedPc' = "upsert"
                ELSE seedPc' = "aborted" /\ UNCHANGED embedding
    /\ UNCHANGED <<serverVars, pureVars, limiterVars, docs, fileIdx, chunks, chunkIdx>>

\* await index.upsert([...]) and the i++ of the loop over chunks
IndexUpsert(ok) ==
    /\ seedPc = "upsert"
    /\ LET file == docs.files[fileIdx]
           chunk == chunks[chunkIdx + 1]
       IN  outbound' = Append(outbound, Upsert(file, chunkIdx, chunk, embedding[1]))
    /\ IF ~ok
         THEN seedPc' = "aborted" /\ UNCHANGED <<fileIdx, chunkIdx>>
         ELSE /\ chunkIdx' = chunkIdx + 1
              /\ IF chunkIdx + 1 < Len(chunks)
                   THEN seedPc' = "embed" /\ UNCHANGED fileIdx
                   ELSE seedPc' = "file" /\ fileIdx' = fileIdx + 1
    /\ UNCHANGED <<serverVars, pureVars, limiterVars, docs, chunks, embedding>>

NextSeed ==
    \/ SeedStart
    \/ NextFile
    \/ \E ok \in BOOLEAN : GenerateEmbedding(ok)
    \/ \E ok \in BOOLEAN : IndexUpsert(ok)

SpecSeed == InitSeed /\ [][NextSeed]_vars

\* ================================================================== claims
Steps(r) == Range(log[r])

\* position of the first step of log[r] that is in S (past the end if none)
First(r, S) ==
    IF \E i \in 1..Len(log[r]) : log[r][i] \in S
      THEN CHOOSE i \in 1..Len(log[r]) :
             /\ log[r][i] \in S
             /\ \A j \in 1..(i - 1) : log[r][j] \notin S
      ELSE Len(log[r]) + 1

RemoteSteps == {"remote ok", "remote error"}

\* the timer fired while the remote call had not settled
TimerWon(r) == First(r, {"timeout"}) < First(r, RemoteSteps)

\* the remote call settled while the timer had not fired
RemoteWon(r) == First(r, RemoteSteps) < First(r, {"timeout"})

\* the request reached the chat handler
HandlerRan(r) ==
    /\ req[r].route = "POST /api/chat"
    /\ pc[r] \in {"wait", "done"}
    /\ "limit ok" \in Steps(r)

\* The rules of the request schema, each with the message it must produce.
ViolationMessages(b) ==
    (IF b.question.t = "absent" THEN {"Question is required"} ELSE {})
    \cup (IF b.question.t = "number" THEN {"Question must be a string"} ELSE {})
    \cup (IF b.question.t = "string" /\ b.question.len = 0
            THEN {"\"question\" is not allowed to be empty"} ELSE {})
    \cup (IF b.question.t = "string" /\ b.question.len \in 1..(QuestionMin - 1)
            THEN {"Question must be at least 10 characters long"} ELSE {})
    \cup (IF b.question.t = "string" /\ b.question.len > QuestionMax
            THEN {"Question cannot exceed 5000 characters"} ELSE {})
    \cup (IF b.citationStyle # Absent /\ b.citationStyle \notin {Enum(x) : x \in StyleValid}
            THEN {"Citation style must be one of: apa, mla, chicago"} ELSE {})
    \cup (IF b.citationMode # Absent /\ b.citationMode \notin {Enum(x) : x \in ModeValid}
            THEN {"Citation mode must be one of: strict, balanced, flexible"} ELSE {})
    \cup (IF b.recency # Absent /\ b.recency \notin {Enum(x) : x \in RecencyValid}
            THEN {"Recency must be one of: 5, 10, 15, all"} ELSE {})
    \cup (IF b.materials.t = "number" THEN {"\"materials\" must be an array"} ELSE {})
    \cup (IF b.materials.t = "array" /\ Len(b.materials.items) > MaterialsMax
            THEN {"Materials cannot exceed 20 items"} ELSE {})
    \cup (IF /\ b.materials.t = "array"
             /\ \E i \in 1..Len(b.materials.items) :
                   /\ b.materials.items[i].t = "string"
                   /\ b.materials.items[i].len > ItemMax
            THEN {"Each material entry cannot exceed 500 characters"} ELSE {})
    \cup (IF b.materials.t = "array"
            THEN {"\"materials[" \o ToString(i - 1) \o "]\" must be a string" :
                    i \in {k \in 1..Len(b.materials.items) :
                             b.materials.items[k].t # "string"}}
            ELSE {})
    \cup (IF b.materials.t = "array"
            THEN {"\"materials[" \o ToString(i - 1) \o "]\" is not allowed to be empty" :
                    i \in {k \in 1..Len(b.materials.items) :
                             b.materials.items[k] = Str(0)}}
            ELSE {})
    \cup (IF b.extra THEN {"\"extra\" is not allowed"} ELSE {})

\* the body breaks at least one rule
Invalid(b) == ViolationMessages(b) # {}

\* C1: when the 30 s timer fires while the remote call has not settled, the
\* request is answered 408 {error: "Request timeout", message}, and that stays
\* the request's one response whatever the remote call does afterwards; a
\* request whose timer has fired has been answered.
C1_TimeoutAnswers408 ==
    \A r \in Reqs :
        /\ TimerWon(r) => sent[r] = <<RequestTimeout>>
        /\ timer[r] = "fired" => Len(sent[r]) = 1

\* the timer won the race and the remote call succeeded afterwards
C1_Witness ==
    \E r \in Reqs :
        /\ TimerWon(r)
        /\ remote[r][1] = "resolved"
        /\ sent[r] = <<RequestTimeout>>

\* C2: a request makes at most one generateText call, exactly one once it
\* has passed validation, and none otherwise; no failure outcome adds a call.
C2_OneCall ==
    \A r \in Reqs :
        /\ calls[r] <= 1
        /\ calls[r] = 1 <=> (HandlerRan(r) /\ ~Invalid(req[r].body[1]))

\* a validated request whose one call failed and was answered, not retried
C2_Witness ==
    \E r \in Reqs :
        /\ calls[r] = 1
        /\ remote[r] = <<"rejected">>
        /\ sent[r] = <<ServiceUnavailable>>

\* C3: a chat request whose body breaks a validation rule is answered 400
\* {error: "Validation failed", details} with no generateText call and no
\* timer; every generateText call follows a successful validation of the
\* same request.
C3_InvalidNeverCalls ==
    \A r \in Reqs :
        /\ (HandlerRan(r) /\ Invalid(req[r].body[1])) =>
              /\ Len(sent[r]) = 1
              /\ sent[r][1].status = 400
              /\ sent[r][1].type = "json"
              /\ DOMAIN sent[r][1].body = {"error", "details"}
              /\ sent[r][1].body.error = "Validation failed"
              /\ sent[r][1].body.details # <<>>
              /\ calls[r] = 0
              /\ timer[r] = "unset"
              /\ remote[r] = <<"none">>
        /\ "generateText" \in Steps(r) =>
              /\ First(r, {"validate ok"}) < First(r, {"generateText"})
              /\ ~Invalid(req[r].body[1])
        /\ calls[r] > 0 => "generateText" \in Steps(r)

\* an invalid body was answered 400 by the handler
C3_Witness ==
    \E r \in Reqs :
        /\ HandlerRan(r)
        /\ Invalid(req[r].body[1])
        /\ sent[r] # <<>>
        /\ sent[r][1].status = 400

C5_HealthAndRootAlways200 ==
    \A r \in Reqs :
        sent[r] # <<>> =>
            /\ req[r].route = "GET /health" =>
                  /\ sent[r][1].status = 200
                  /\ sent[r][1].type = "json"
            /\ req[r].route = "GET /" =>
                  sent[r][1] = Plain(200, "text", "PsyCanvas backend is running.")

\* C6: every response that reports a failure is a JSON object with an
\* `error` key.
C6_FailuresAreJsonErrors ==
    \A r \in Reqs :
        (sent[r] # <<>> /\ sent[r][1].status >= 400) =>
            /\ sent[r][1].type = "json"
            /\ "error" \in DOMAIN sent[r][1].body

\* C7: a failure with status 401 is answered 500 "Configuration error", one
\* with status 429 is answered 429 "Rate limit exceeded", one with code
\* ENOTFOUND or ECONNREFUSED is answered 503 "Service unavailable", whatever
\* its other attributes.
C7_KindDecidesResponse ==
    cout # <<>> =>
        /\ cin[1].status = 401 =>
              cout[1].status = 500 /\ cout[1].body.error = "Configuration error"
        /\ cin[1].status = 429 =>
              cout[1].status = 429 /\ cout[1].body.error = "Rate limit exceeded"
        /\ cin[1].code \in {"ENOTFOUND", "ECONNREFUSED"} =>
              cout[1].status = 503 /\ cout[1].body.error = "Service unavailable"

\* the fixed (status, error, message) rows of the classification table
FailureTable ==
    {RequestTimeout, ServiceUnavailable, ApiKeyError, RateLimitExceeded,
     InvalidModel, InternalServerError}

\* the row of the table a failure falls in: the first that applies
FailureClass(e) ==
    IF e.hasMessage /\ e.message = TextRequestTimeout THEN "Timeout"
    ELSE IF e.code \in {"ENOTFOUND", "ECONNREFUSED"} \/ MessageIncludes(e, TextNetwork)
      THEN "Unreachable"
    ELSE IF \/ e.status = 401
            \/ MessageIncludes(e, TextApiKey)
            \/ MessageIncludes(e, TextAuthentication)
      THEN "Misconfigured"
    ELSE IF e.status = 429 \/ MessageIncludes(e, TextRateLimit) THEN "Throttled"
    ELSE IF MessageIncludes(e, TextModel) \/ MessageIncludes(e, TextInvalid)
      THEN "BadModelConfig"
    ELSE "Unknown"

\* C8: the response to a remote failure is one of the fixed rows of the
\* table, carries the keys error and message only, and is the same for every
\* failure of the same class: nothing of the failure itself is in it.
C8_FixedBodies ==
    cout # <<>> =>
        /\ cout[1] \in FailureTable
        /\ DOMAIN cout[1].body = {"error", "message"}
        /\ \A e \in ErrUniverse :
              FailureClass(e) = FailureClass(cin[1]) => Categorize(e) = cout[1]

\* a failure of the generic class, with a message and a code of its own
C8_Witness ==
    /\ cout = <<InternalServerError>>
    /\ cin[1].hasMessage
    /\ cin[1].message = MsgBoom
    /\ cin[1].code = "ETIMEDOUT"

\* C9: the 400 response lists a message for every rule the body breaks, and
\* a body is answered 400 exactly when it breaks a rule.
C9_AllViolationsReported ==
    vout # <<>> =>
        /\ Invalid(vin[1]) <=> vout[1].sent # <<>>
        /\ vout[1].sent # <<>> =>
              /\ Len(vout[1].sent) = 1
              /\ vout[1].sent[1].status = 400
              /\ vout[1].sent[1].body.error = "Validation failed"
              /\ ViolationMessages(vin[1]) \subseteq Range(vout[1].sent[1].body.details)

\* a short question with more than 20 materials, one of them too long: the
\* three messages are in the one response
C9_Witness ==
    /\ vout # <<>>
    /\ vin[1].question = Str(QuestionMin - 1)
    /\ vin[1].materials.t = "array"
    /\ Len(vin[1].materials.items) > MaterialsMax
    /\ Str(ItemMax + 1) \in Range(vin[1].materials.items)
    /\ {"Question must be at least 10 characters long",
        "Each material entry cannot exceed 500 characters",
        "Materials cannot exceed 20 items"}
          \subseteq Range(vout[1].sent[1].body.details)

\* C10 as stated: a request whose remote call succeeded is answered 200
\* {answer: text}.
C10_SuccessAnswers200 ==
    \A r \in Reqs :
        remote[r][1] = "resolved" => sent[r] = <<Answer(remote[r][2])>>

\* C10 as amended: a request whose remote call succeeded before the timer
\* fired is answered 200 with the body {answer: text} and no other key.
C10_TimelySuccessAnswers200 ==
    \A r \in Reqs :
        (remote[r][1] = "resolved" /\ RemoteWon(r)) =>
            /\ sent[r] = <<Json(200, [answer |-> remote[r][2]])>>
            /\ DOMAIN sent[r][1].body = {"answer"}

\* the call succeeded first and the timer fired afterwards
C10_Witness ==
    \E r \in Reqs :
        /\ remote[r] = <<"resolved", "MDD involves...">>
        /\ RemoteWon(r)
        /\ timer[r] = "fired"
        /\ sent[r] = <<Answer("MDD involves...")>>

\* the optional fields of a chat request and the default the claim names
\* for each
OptionalFields == {"citationStyle", "citationMode", "recency", "materials"}

StatedDefault(f) ==
    CASE f = "citationStyle" -> Enum("apa")
      [] f = "citationMode" -> Enum("balanced")
      [] f = "recency" -> Enum("10")
      [] f = "materials" -> Arr(<<>>)

Omitted(b) == {f \in OptionalFields : b[f] = Absent}

\* the same request with the fields of S spelled out as their defaults
WithExplicitDefaults(b, S) ==
    [f \in DOMAIN b |-> IF f \in S THEN StatedDefault(f) ELSE b[f]]

\* C11: for every valid request and every subset of the optional fields it
\* omits, the request with those fields explicitly set to apa, balanced, "10"
\* and the empty list is valid too and gets the same system prompt.
C11_DefaultsGiveSamePrompt ==
    (vout # <<>> /\ vout[1].details = <<>>) =>
        \A S \in SUBSET Omitted(vin[1]) :
            LET explicit == GenerateArgs(WithExplicitDefaults(vin[1], S))
            IN  /\ vout[1].call # <<>>
                /\ explicit # <<>>
                /\ explicit[1].system = vout[1].call[1].system

\* a valid request that omits the style and the recency but lists materials
\* has had its prompt built
C11_Witness ==
    /\ vout # <<>>
    /\ vout[1].details = <<>>
    /\ vout[1].call # <<>>
    /\ Omitted(vin[1]) = {"citationStyle", "recency"}
    /\ vout[1].call[1].system.materials.entries # <<>>

RECURSIVE Flatten(_)
Flatten(ss) == IF ss = <<>> THEN <<>> ELSE Head(ss) \o Flatten(Tail(ss))

IsPrefix(a, b) == Len(a) <= Len(b) /\ SubSeq(b, 1, Len(a)) = a

\* what the claim says of a call: an embedding call by its input, an upsert
\* by its identity and its metadata
Observed ==
    [k \in 1..Len(outbound) |->
        IF outbound[k].op = "upsert"
          THEN [op |-> "upsert", id |-> outbound[k].id,
                metadata |-> outbound[k].metadata]
          ELSE [op |-> outbound[k].op, input |-> outbound[k].input]]

\* the fragments of a text that have at least `least` characters, in order
KeptFragments(text, least) ==
    LET Keep(c) == Length(c) >= least
    IN  SelectSeq(Split(text), Keep)

\* for each kept fragment of a file, counted from 0 among the kept ones, one
\* embedding call followed by one upsert
FileCalls(file, least) ==
    LET kept == KeptFragments(docs.text[file], least)
    IN  Flatten([i \in 1..Len(kept) |->
                   <<[op |-> "embeddings.create", input |-> kept[i]],
                     [op |-> "upsert", id |-> file \o <<"-">> \o Decimal(i - 1),
                      metadata |-> [text |-> kept[i], source |-> file]]>>])

\* the calls of a whole run over the text files of the directory, in order
ExpectedCalls(least) ==
    LET IsText(f) == EndsWith(f, SuffixTxt)
        textFiles == SelectSeq(docs.files, IsText)
    IN  Flatten([k \in 1..Len(textFiles) |-> FileCalls(textFiles[k], least)])

\* C12 as stated: a run of the ingestion script that ends normally has made,
\* for every text file and every fragment of 50 or more characters, one
\* embedding call followed by one upsert (id: file name and index, metadata:
\* text and file name), and no other call.
C12_KeepsFragmentsFrom50 ==
    seedPc = "done" => Observed = ExpectedCalls(ChunkMin)

\* C12 as amended: the fragments kept are those of more than 50 characters;
\* the calls made so far are always the first of that list, and a run that
\* ends normally has made them all.
C12_KeepsFragmentsAbove50 ==
    /\ IsPrefix(Observed, ExpectedCalls(ChunkMin + 1))
    /\ seedPc = "done" => Observed = ExpectedCalls(ChunkMin + 1)

\* a run has ended normally on a directory where a.txt holds a fragment of
\* exactly 50 characters before one of 51, and c.txt a fragment of 51
C12_Witness ==
    /\ seedPc = "done"
    /\ docs.exists
    /\ docs.text[FileA] = <<Run(ChunkMin), Newline, Newline, Run(ChunkMin + 1)>>
    /\ docs.text[FileC] = <<Run(ChunkMin + 1)>>
    /\ Len(outbound) = 4
    /\ outbound[2].id = <<"a", ".", "t", "x", "t", "-", "0">>
    /\ outbound[2].metadata.text = <<Run(ChunkMin + 1)>>

\* C13: a POST /api/chat request that reached the handler is sent at most one
\* response; once the race has been decided it has exactly one, and keeps
\* just that one when the loser of the race settles afterwards.
C13_AtMostOneResponse ==
    \A r \in Reqs :
        HandlerRan(r) =>
            /\ Len(sent[r]) <= 1
            /\ (pc[r] = "done" /\ "generateText" \in Steps(r)) =>
                   Len(sent[r]) = 1

\* a request answered 408 whose abandoned call failed afterwards, next to a
\* request answered by its call whose timer fired afterwards
C13_Witness ==
    \E r1, r2 \in Reqs :
        /\ TimerWon(r1) /\ remote[r1] = <<"rejected">>
        /\ sent[r1] = <<RequestTimeout>>
        /\ RemoteWon(r2) /\ timer[r2] = "fired"
        /\ Len(sent[r2]) = 1

\* C14 as stated: a request is answered 408 only if its timer fired before
\* its remote call settled; a call that failed first is never answered 408.
C14_Only408AfterTimer ==
    \A r \in Reqs :
        /\ (\E i \in 1..Len(sent[r]) : sent[r][i].status = 408) => TimerWon(r)
        /\ (RemoteWon(r) /\ remote[r] = <<"rejected">>) =>
               \A i \in 1..Len(sent[r]) : sent[r][i].status # 408

\* the place of a step in the pipeline of an /api/ request
Stage(step) ==
    CASE step \in {"cors ok", "cors error"} -> 1
      [] step \in {"json ok", "json error"} -> 2
      [] step \in {"limit ok", "limit 429"} -> 3
      [] step \in {"validate ok", "validate error"} -> 4
      [] step \in {"setTimeout", "generateText"} -> 5
      [] OTHER -> 6

Rejections == {"cors error", "json error", "limit 429", "validate error"}

\* requests of caller c the limiter has counted
Counted(c) ==
    {r \in Reqs : req[r].caller = c /\ Steps(r) \cap {"limit ok", "limit 429"} # {}}

\* C15: an /api/ request passes origin check, body parsing, rate limiter,
\* validation and remote call in that order, skipping none, and a rejection
\* ends it: refused by the limiter it is neither validated nor forwarded;
\* the caller's counter counts exactly the requests that reached the limiter,
\* those that failed validation included, those rejected earlier excluded.
C15_ProcessingOrder ==
    /\ \A r \in Reqs :
          IsApi(req[r].route) =>
              /\ \A i \in 1..Len(log[r]) :
                    /\ i > 1 => Stage(log[r][i - 1]) <= Stage(log[r][i])
                    /\ Stage(log[r][i]) <= 4 => Stage(log[r][i]) = i
                    /\ log[r][i] \in Rejections => i = Len(log[r])
              /\ "limit 429" \in Steps(r) =>
                    /\ calls[r] = 0
                    /\ Steps(r) \cap {"validate ok", "validate error", "generateText"} = {}
              /\ calls[r] > 0 => "validate ok" \in Steps(r)
    /\ \A c \in Callers :
          store[c].totalHits \in {Cardinality(Counted(c)), max - 1 + Cardinality(Counted(c))}

\* a request failed validation after taking its caller's last admission, and
\* the caller's next request was refused by the limiter
C15_Witness ==
    \E r1, r2 \in Reqs :
        /\ req[r1].caller = req[r2].caller
        /\ "validate error" \in Steps(r1)
        /\ "limit 429" \in Steps(r2)
        /\ store[req[r1].caller].totalHits = max + 1
        /\ sent[r2] = <<TooManyRequests>>

====
